---- MODULE Spec2Model ----
(***************************************************************************)
(* Model of the bit-packed grid engine (Match3Board) and of the bit-plane  *)
(* transposition routine (transposeBitboard).                              *)
(*                                                                         *)
(* A bigint is represented by the set of the indices of its 1 bits:        *)
(*   a & b  is  a \cap b,   a | b  is  a \cup b,   a & ~b  is  a \ b,        *)
(*   a ^ b  is  the symmetric difference,  a << k and a >> k move indices. *)
(* bigint is unbounded, so a left shift loses no bit; only the masks of    *)
(* the code cut a value back to bits 0..63.                                *)
(***************************************************************************)
EXTENDS Integers, FiniteSets, Sequences, TLC

\* ---------------------------------------------------------------- bounds
\* occupied cells a caller's setColor calls leave in one column
MaxPieces == 4
\* the same, when applyGravity is followed one loop iteration at a time
MaxPiecesSteps == 2
\* number of bits set in an input of transposeBitboard
MaxBits == 2
\* occupied bit positions on a board written with unchecked arguments
MaxCells == 2
\* number of makeMove calls made on one chess board
MaxMoves == 2
\* occupied cells of the board two applyGravity invocations are run on
MaxPiecesConc == 1
\* the value at which the counts of passes and of moves of a call stop
MaxCount == 9

\* ------------------------------------------------------- program constants
\* the board is 8 x 8: rows and columns 0..7
Size == 8
\* Color enum: EMPTY = 0, RED = 1, BLUE = 2, GREEN = 3
EMPTY == 0
RED == 1
BLUE == 2
GREEN == 3
Colors == {EMPTY, RED, BLUE, GREEN}
Rows == 0 .. (Size - 1)
Cols == 0 .. (Size - 1)

\* the column the modelled caller writes to with setColor (the first column
\* of createStackingTestPattern); the second column of a board is filled by
\* createStackingTestPattern
InputCols == {3}

\* the rows the caller writes to before two applyGravity invocations are run
\* on the board: a piece there falls one row or two
ConcRows == {1, 2}
\* the colours written there: none, one of one bit and the one of two bits
ConcColors == {EMPTY, RED, GREEN}

\* arguments of getColor and setColor when they are not kept in range:
\* values at the ends of the range and the first value outside on each side
ArgRows == {-1, 0, 7, 8}
ArgCols == {-1, 0, 8}
ArgColors == -1 .. 4

\* ------------------------------------------------------- bigint operations
\* Bit with the shift count taken modulo 64, as a 64-bit shift would
Bit_Mod64(pos) == {pos % 64}

\* 1n << BigInt(pos); a negative count shifts right, which gives 0n
Bit(pos) == IF pos >= 0 THEN {pos} ELSE {}
\* x << k
ShiftLeft(x, k) == {i + k : i \in x}
\* x >> k
ShiftRight(x, k) == {i - k : i \in {j \in x : j >= k}}
\* x ^ y
Xor(x, y) == (x \ y) \cup (y \ x)
\* the least element of a non-empty set of bit indices
MinBit(x) == CHOOSE i \in x : \A j \in x : i <= j
\* x & (-x): the lowest set bit of x (0n when x is 0n)
LowestSetBit(x) == IF x = {} THEN {} ELSE {MinBit(x)}
\* (1n << BigInt(pos)) - 1n : all bits below pos
BitsBelow(pos) == 0 .. (pos - 1)

\* ------------------------------------------------------------- Match3Board
\* getColor(row, col) on planes lo, hi
getColor(lo, hi, r, c) ==
    LET pos == r * 8 + c
        mask == Bit(pos)
        low == IF (lo \cap mask) # {} THEN 1 ELSE 0
        high == IF (hi \cap mask) # {} THEN 1 ELSE 0
    IN  high * 2 + low

\* setColorLow that flips the bit instead of setting it
setColorLow_Toggle(lo, r, c, color) ==
    LET mask == Bit(r * 8 + c)
    IN  IF color % 2 = 1 THEN Xor(lo, mask) ELSE lo \ mask

\* setColorLow that clears the whole plane instead of one bit
setColorLow_ClearAll(lo, r, c, color) ==
    LET mask == Bit(r * 8 + c)
    IN  IF color % 2 = 1 THEN lo \cup mask ELSE {}

\* setColor(row, col, color): the new low plane
setColorLow(lo, r, c, color) ==
    LET mask == Bit(r * 8 + c)
    IN  IF color % 2 = 1 THEN lo \cup mask ELSE lo \ mask

\* setColorHigh without the else branch that clears the bit
setColorHigh_NoClear(hi, r, c, color) ==
    LET mask == Bit(r * 8 + c)
    IN  IF (color \div 2) % 2 = 1 THEN hi \cup mask ELSE hi

\* setColor(row, col, color): the new high plane
setColorHigh(hi, r, c, color) ==
    LET mask == Bit(r * 8 + c)
    IN  IF (color \div 2) % 2 = 1 THEN hi \cup mask ELSE hi \ mask

\* columnMasks[col]: a 1 in every 8th bit
columnMasks == [c \in 0 .. 7 |-> {r * 8 + c : r \in 0 .. 7}]

\* const currentRowMask = 0xFFn << BigInt(row * 8)
currentRowMask == [r \in 0 .. 6 |-> ShiftLeft(0 .. 7, r * 8)]

\* aboveRowMask of the current row instead of the row above it
aboveRowMask_SameRow == [r \in 0 .. 6 |-> ShiftLeft(0 .. 7, r * 8)]

\* const aboveRowMask = 0xFFn << BigInt((row + 1) * 8)
aboveRowMask == [r \in 0 .. 6 |-> ShiftLeft(0 .. 7, (r + 1) * 8)]

\* belowMask without the column mask: every bit below the cell
belowMask_AllColumns == [r \in 0 .. 6 |-> [c \in 0 .. 7 |-> BitsBelow(r * 8 + c)]]

\* belowMask holding only the cell directly below, not every cell below
belowMask_RowBelowOnly ==
    [r \in 0 .. 6 |-> [c \in 0 .. 7 |-> columnMasks[c] \cap Bit((r - 1) * 8 + c)]]

\* const belowMask = columnMask & ((1n << BigInt(row * 8 + col)) - 1n),
\* for every row and col of the loops
belowMask ==
    [r \in 0 .. 6 |-> [c \in 0 .. 7 |-> columnMasks[c] \cap BitsBelow(r * 8 + c)]]

\* const aboveMask = columnMask & aboveRowMask, for every row and col
aboveMask == [r \in 0 .. 6 |-> [c \in 0 .. 7 |-> columnMasks[c] \cap aboveRowMask[r]]]

\* lowestPieceAbove without the test that the cell (row, col) is empty
lowestPieceAbove_NoEmptyCheck(occ, emptyCells, r, c) ==
    LET hasPieceBelow == (occ \cap belowMask[r][c]) # {}
        piecesAbove == occ \cap aboveMask[r][c]
    IN  IF ~hasPieceBelow \/ r = 0 THEN LowestSetBit(piecesAbove) ELSE {}

\* lowestPieceAbove without the test !hasPieceBelow || row === 0
lowestPieceAbove_NoBelowCheck(occ, emptyCells, r, c) ==
    LET emptyInColumn == emptyCells \cap columnMasks[c]
        piecesAbove == occ \cap aboveMask[r][c]
    IN  IF emptyInColumn # {} THEN LowestSetBit(piecesAbove) ELSE {}

\* the piece picked by one iteration of the column loop: lowestPieceAbove,
\* or 0n when the iteration moves nothing.  occ is the row's snapshot
\* occupiedCells and emptyCells the row's empty cells.
lowestPieceAbove(occ, emptyCells, r, c) ==
    LET emptyInColumn == emptyCells \cap columnMasks[c]
        hasPieceBelow == (occ \cap belowMask[r][c]) # {}
        piecesAbove == occ \cap aboveMask[r][c]
    IN  IF emptyInColumn # {} /\ (~hasPieceBelow \/ r = 0)
        THEN LowestSetBit(piecesAbove)
        ELSE {}

\* ColumnBody without the clearing of the piece's old position
ColumnBody_NoClear(st, occ, emptyCells, r, c) ==
    LET piece == lowestPieceAbove(occ, emptyCells, r, c)
    IN  IF piece = {} THEN st
        ELSE [lo |-> st.lo \cup ShiftRight(st.lo \cap piece, 8),
              hi |-> st.hi \cup ShiftRight(st.hi \cap piece, 8),
              moved |-> TRUE]

\* ColumnBody with moved = true set whether or not a piece was found
ColumnBody_AlwaysMoved(st, occ, emptyCells, r, c) ==
    LET piece == lowestPieceAbove(occ, emptyCells, r, c)
    IN  [lo |-> (st.lo \ piece) \cup ShiftRight(st.lo \cap piece, 8),
         hi |-> (st.hi \ piece) \cup ShiftRight(st.hi \cap piece, 8),
         moved |-> TRUE]

\* ColumnBody moving the piece by 16 positions (two rows) instead of 8
ColumnBody_TwoRows(st, occ, emptyCells, r, c) ==
    LET piece == lowestPieceAbove(occ, emptyCells, r, c)
    IN  IF piece = {} THEN st
        ELSE [lo |-> (st.lo \ piece) \cup ShiftRight(st.lo \cap piece, 16),
              hi |-> (st.hi \ piece) \cup ShiftRight(st.hi \cap piece, 16),
              moved |-> TRUE]

\* ColumnBody shifting the piece left (up a row) instead of right
ColumnBody_MoveUp(st, occ, emptyCells, r, c) ==
    LET piece == lowestPieceAbove(occ, emptyCells, r, c)
    IN  IF piece = {} THEN st
        ELSE [lo |-> (st.lo \ piece) \cup ShiftLeft(st.lo \cap piece, 8),
              hi |-> (st.hi \ piece) \cup ShiftLeft(st.hi \cap piece, 8),
              moved |-> TRUE]

\* the body of the column loop for (row, col): planes and moved flag after it
ColumnBody(st, occ, emptyCells, r, c) ==
    LET piece == lowestPieceAbove(occ, emptyCells, r, c)
        lowBitMove == st.lo \cap piece
        highBitMove == st.hi \cap piece
    IN  IF piece = {} THEN st
        ELSE [lo |-> (st.lo \ piece) \cup ShiftRight(lowBitMove, 8),
              hi |-> (st.hi \ piece) \cup ShiftRight(highBitMove, 8),
              moved |-> TRUE]

\* for (let col = c; col < 8; col++) with the row's snapshot occ
RECURSIVE ColumnLoop(_, _, _, _, _)
ColumnLoop(st, occ, emptyCells, r, c) ==
    IF c >= 8 THEN st
    ELSE ColumnLoop(ColumnBody(st, occ, emptyCells, r, c), occ, emptyCells, r, c + 1)

\* the body of the row loop: snapshot, then the column loop when the row has
\* an empty cell
RowBody(st, r) ==
    LET occ == st.lo \cup st.hi
        emptyCells == currentRowMask[r] \ occ
    IN  IF emptyCells # {} THEN ColumnLoop(st, occ, emptyCells, r, 0) ELSE st

\* for (let row = r; row < 7; row++)
RECURSIVE RowLoop(_, _)
RowLoop(st, r) ==
    IF r >= 7 THEN st ELSE RowLoop(RowBody(st, r), r + 1)

\* PassLoop that never repeats: a single pass
PassLoop_Once(lo, hi) == RowLoop([lo |-> lo, hi |-> hi, moved |-> FALSE], 0)

\* do { moved = false; rows } while (moved)
RECURSIVE PassLoop(_, _)
PassLoop(lo, hi) ==
    LET st == RowLoop([lo |-> lo, hi |-> hi, moved |-> FALSE], 0)
    IN  IF st.moved THEN PassLoop(st.lo, st.hi) ELSE st

\* applyGravity(): the planes when it returns
applyGravityResult(lo, hi) == PassLoop(lo, hi)

\* createStackingTestPattern(): the seven setColor calls, in order
PatternCalls ==
    << <<7, 3, RED>>, <<5, 3, BLUE>>, <<3, 3, GREEN>>, <<0, 3, RED>>,
       <<6, 1, BLUE>>, <<4, 1, GREEN>>, <<2, 1, RED>> >>

\* the low plane after the first n calls of createStackingTestPattern
RECURSIVE PatternLow(_, _)
PatternLow(lo, n) ==
    IF n = 0 THEN lo
    ELSE setColorLow(PatternLow(lo, n - 1), PatternCalls[n][1],
                     PatternCalls[n][2], PatternCalls[n][3])

\* the high plane after the first n calls of createStackingTestPattern
RECURSIVE PatternHigh(_, _)
PatternHigh(hi, n) ==
    IF n = 0 THEN hi
    ELSE setColorHigh(PatternHigh(hi, n - 1), PatternCalls[n][1],
                      PatternCalls[n][2], PatternCalls[n][3])

\* ------------------------------------------------------- transposeBitboard
\* the bits of a byte value
ByteBits(n) == {i \in 0 .. 7 : (n \div (2 ^ i)) % 2 = 1}
\* the bigint whose bytes, most significant first, are bytes[1..8]
FromBytes(bytes) == UNION {ShiftLeft(ByteBits(bytes[8 - j]), 8 * j) : j \in 0 .. 7}

\* const k1 = 0x5500550055005500n
k1 == FromBytes(<<85, 0, 85, 0, 85, 0, 85, 0>>)
\* const k2 = 0x3333000033330000n
k2 == FromBytes(<<51, 51, 0, 0, 51, 51, 0, 0>>)
\* const k4 = 0x0f0f0f0f00000000n
k4 == FromBytes(<<15, 15, 15, 15, 0, 0, 0, 0>>)

\* TransposeStage whose first half leaves out the mask: t = b ^ (b << s)
TransposeStage_Unmasked(b, s, k) ==
    LET t == Xor(b, ShiftLeft(b, s))
    IN  Xor(t, ShiftRight(t, s) \cap k)

\* one step of transposeBitboard:
\*   t = b ^ ((b << s) & k);  b = t ^ ((t >> s) & k)
TransposeStage(b, s, k) ==
    LET t == Xor(b, ShiftLeft(b, s) \cap k)
    IN  Xor(t, ShiftRight(t, s) \cap k)

\* transposeBitboard(bitboard)
transposeBitboard(bitboard) ==
    TransposeStage(TransposeStage(TransposeStage(bitboard, 8, k1), 16, k2), 32, k4)

\* the shift and the mask of each of the three steps of transposeBitboard
Stages == << <<8, k1>>, <<16, k2>>, <<32, k4>> >>

\* const example = 0x8142241818244281n
ExamplePattern == FromBytes(<<129, 66, 36, 24, 24, 36, 66, 129>>)

\* the bigints with at most n bits set among bits 0..63
RECURSIVE BitSets(_)
BitSets(n) ==
    IF n = 0 THEN {{}}
    ELSE LET prev == BitSets(n - 1)
         IN  prev \cup {s \cup {b} : s \in prev, b \in 0 .. 63}

\* --------------------------------------------------------------- ChessBoard
\* enum PieceType
PAWN == 0
KNIGHT == 1
BISHOP == 2
ROOK == 3
QUEEN == 4
KING == 5
PieceTypes == {PAWN, KNIGHT, BISHOP, ROOK, QUEEN, KING}
\* enum Color of the chess board
WHITE == 0
BLACK == 1
ChessColors == {WHITE, BLACK}

\* the squares the modelled caller passes to makeMove: the example move
\* 12 -> 28, and pawn, rook and king squares of both sides with a target each
MoveSquares == {4, 8, 12, 28, 40, 48, 52, 56, 60}

\* getColorMask(color, piece): 0x000000000000FFFFn or 0xFFFF000000000000n
getColorMask(color, piece) == IF color = WHITE THEN 0 .. 15 ELSE 48 .. 63

\* updateColorBitboards(): the colors map computed from the pieces map
updateColorBitboards(pcs) ==
    [k \in ChessColors |-> UNION {pcs[p] \cap getColorMask(k, p) : p \in PieceTypes}]

\* setPieceBitboard(piece, color, bitboard) on board b
setPieceBitboard(b, piece, color, bitboard) ==
    LET pcs == [b.pieces EXCEPT ![piece] = bitboard]
    IN  [pieces |-> pcs, colors |-> updateColorBitboards(pcs)]

\* the board of the constructor before initializeStandardPosition
EmptyChessBoard ==
    [pieces |-> [p \in PieceTypes |-> {}], colors |-> [k \in ChessColors |-> {}]]

\* the setPieceBitboard calls of initializeStandardPosition, in order
StandardCalls ==
    << <<PAWN, WHITE, FromBytes(<<0, 0, 0, 0, 0, 0, 255, 0>>)>>,
       <<PAWN, BLACK, FromBytes(<<0, 255, 0, 0, 0, 0, 0, 0>>)>>,
       <<ROOK, WHITE, FromBytes(<<0, 0, 0, 0, 0, 0, 0, 129>>)>>,
       <<KNIGHT, WHITE, FromBytes(<<0, 0, 0, 0, 0, 0, 0, 66>>)>>,
       <<BISHOP, WHITE, FromBytes(<<0, 0, 0, 0, 0, 0, 0, 36>>)>>,
       <<QUEEN, WHITE, FromBytes(<<0, 0, 0, 0, 0, 0, 0, 8>>)>>,
       <<KING, WHITE, FromBytes(<<0, 0, 0, 0, 0, 0, 0, 16>>)>>,
       <<ROOK, BLACK, FromBytes(<<129, 0, 0, 0, 0, 0, 0, 0>>)>>,
       <<KNIGHT, BLACK, FromBytes(<<66, 0, 0, 0, 0, 0, 0, 0>>)>>,
       <<BISHOP, BLACK, FromBytes(<<36, 0, 0, 0, 0, 0, 0, 0>>)>>,
       <<QUEEN, BLACK, FromBytes(<<8, 0, 0, 0, 0, 0, 0, 0>>)>>,
       <<KING, BLACK, FromBytes(<<16, 0, 0, 0, 0, 0, 0, 0>>)>> >>

\* the board after the first n calls of initializeStandardPosition
RECURSIVE StandardAfter(_)
StandardAfter(n) ==
    IF n = 0 THEN EmptyChessBoard
    ELSE setPieceBitboard(StandardAfter(n - 1), StandardCalls[n][1],
                          StandardCalls[n][2], StandardCalls[n][3])

\* initializeStandardPosition(): the calls, then updateColorBitboards()
initializeStandardPosition ==
    LET b == StandardAfter(Len(StandardCalls))
    IN  [pieces |-> b.pieces, colors |-> updateColorBitboards(b.pieces)]

\* the piece types whose bitboard holds the square, in the order of the map
\* (the constructor inserts PAWN .. KING in this order)
TypesAt(pcs, square) == {p \in PieceTypes : (pcs[p] \cap Bit(square)) # {}}

\* getPieceAtSquare(square): <<type, color>>, or <<>> for null
getPieceAtSquare(pcs, cols, square) ==
    LET mask == Bit(square)
        found == TypesAt(pcs, square)
    IN  IF found = {} THEN <<>>
        ELSE <<MinBit(found),
               IF (cols[WHITE] \cap mask) # {} THEN WHITE ELSE BLACK>>

\* makeMove(fromSquare, toSquare) on board b
makeMove(b, fromSquare, toSquare) ==
    LET piece == getPieceAtSquare(b.pieces, b.colors, fromSquare)
        moveMask == Bit(fromSquare) \cup Bit(toSquare)
        pcs == [b.pieces EXCEPT ![piece[1]] = Xor(@, moveMask)]
    IN  IF piece = <<>> THEN b
        ELSE [pieces |-> pcs, colors |-> updateColorBitboards(pcs)]

\* ------------------------------------------------------------------- state
VARIABLES
    lowBits,        \* Match3Board.lowBits
    highBits,       \* Match3Board.highBits
    op,             \* the last operation completed on the board
    settled,        \* the last applyGravity was entered right after an applyGravity returned
    lowBefore,      \* lowBits at the entry of the last applyGravity
    highBefore,     \* highBits at the entry of the last applyGravity
    pc,             \* position inside applyGravity, "idle" outside of it
    row,            \* applyGravity: let row
    col,            \* applyGravity: let col
    moved,          \* applyGravity: let moved
    occupiedCells,  \* applyGravity: const occupiedCells of the current row
    tIn,            \* the argument of transposeBitboard
    tOut,           \* the value transposeBitboard returned
    tDone,          \* transposeBitboard has returned
    tBack,          \* the value transposeBitboard returned for the argument tOut
    tBackDone,      \* that second call has returned
    call,           \* the last getColor or setColor call: arguments, planes at entry, outcome
    pieces,         \* ChessBoard.pieces
    colors,         \* ChessBoard.colors
    move,           \* the last makeMove call: its number, arguments, maps at entry
    pass,           \* the running applyGravity: passes begun, planes at the last pass's start, moves made per column
    stage,          \* one step of transposeBitboard applied to tIn, and applied again to the result
    mode,           \* how two applyGravity invocations on one board are run: "serial" or "interleaved"
    threads         \* the two invocations: position and local variables of each

boardVars == <<lowBits, highBits, op, settled, lowBefore, highBefore>>
loopVars == <<pc, row, col, moved, occupiedCells>>
transVars == <<tIn, tOut, tDone, tBack, tBackDone>>
callVars == <<call>>
chessVars == <<pieces, colors, move>>
passVars == <<pass>>
stageVars == <<stage>>
concVars == <<mode, threads>>
vars == <<boardVars, loopVars, transVars, callVars, chessVars, passVars, stageVars, concVars>>

\* no pass of applyGravity has begun
NoPass == [n |-> 0, lo |-> {}, hi |-> {}, moves |-> [c \in Cols |-> 0]]

\* no step of transposeBitboard was applied on its own
NoStage == [n |-> 0, i |-> 0, once |-> {}, twice |-> {}]

\* an applyGravity invocation that has not been called
NotCalled ==
    [pc |-> "new", row |-> 0, col |-> 0, moved |-> FALSE, occupiedCells |-> {},
     piece |-> {}, lowBitMove |-> {}, highBitMove |-> {}, tmp |-> {}]


\* no getColor or setColor call was made yet
NoCall ==
    [kind |-> "none", row |-> 0, col |-> 0, color |-> 0, lo |-> {}, hi |-> {},
     repeat |-> FALSE, threw |-> FALSE]

\* new Match3Board() and new ChessBoard()
InitBoard ==
    /\ lowBits = {}
    /\ highBits = {}
    /\ op = "new"
    /\ settled = FALSE
    /\ lowBefore = {}
    /\ highBefore = {}
    /\ pc = "idle"
    /\ row = 0
    /\ col = 0
    /\ moved = FALSE
    /\ occupiedCells = {}
    /\ call = NoCall
    /\ pieces = initializeStandardPosition.pieces
    /\ colors = initializeStandardPosition.colors
    /\ move = [n |-> 0, from |-> 0, to |-> 0,
               pieces |-> initializeStandardPosition.pieces,
               colors |-> initializeStandardPosition.colors]
    /\ pass = NoPass
    /\ stage = NoStage
    /\ threads = [i \in 1 .. 2 |-> NotCalled]

Init ==
    /\ InitBoard
    /\ mode = "serial"
    /\ tIn = {}
    /\ tOut = {}
    /\ tDone = FALSE
    /\ tBack = {}
    /\ tBackDone = FALSE

\* board.setColor(r, c, color), leaving at most max pieces in column c
SetColorCall(r, c, color, max) ==
    /\ pc = "idle"
    /\ lowBits' = setColorLow(lowBits, r, c, color)
    /\ highBits' = setColorHigh(highBits, r, c, color)
    /\ Cardinality((lowBits' \cup highBits') \cap columnMasks[c]) <= max
    /\ op' = "setColor"
    /\ settled' = FALSE
    /\ lowBefore' = {}
    /\ highBefore' = {}
    /\ UNCHANGED <<loopVars, transVars, callVars, chessVars, passVars, stageVars, concVars>>

SetColor(r, c, color) == SetColorCall(r, c, color, MaxPieces)

\* board.createStackingTestPattern(), called on the new board
CreateStackingTestPattern ==
    /\ pc = "idle"
    /\ op = "new"
    /\ lowBits' = PatternLow(lowBits, Len(PatternCalls))
    /\ highBits' = PatternHigh(highBits, Len(PatternCalls))
    /\ op' = "pattern"
    /\ settled' = FALSE
    /\ lowBefore' = {}
    /\ highBefore' = {}
    /\ UNCHANGED <<loopVars, transVars, callVars, chessVars, passVars, stageVars, concVars>>

\* board.applyGravity(), from the call to the return
ApplyGravity ==
    /\ pc = "idle"
    /\ LET res == applyGravityResult(lowBits, highBits)
       IN  /\ lowBits' = res.lo
           /\ highBits' = res.hi
    /\ op' = "applyGravity"
    /\ settled' = (op = "applyGravity")
    /\ lowBefore' = lowBits
    /\ highBefore' = highBits
    /\ UNCHANGED <<loopVars, transVars, callVars, chessVars, passVars, stageVars, concVars>>

Next ==
    \/ \E r \in Rows, c \in InputCols, color \in Colors : SetColor(r, c, color)
    \/ CreateStackingTestPattern
    \/ ApplyGravity

Spec == Init /\ [][Next]_vars

\* ------------------------- applyGravity, one loop iteration at a time
SetColorSteps(r, c, color) == SetColorCall(r, c, color, MaxPiecesSteps)

\* the call of applyGravity: the column masks are built, the do loop entered
GravityCall ==
    /\ pc = "idle"
    /\ pc' = "do"
    /\ settled' = (op = "applyGravity")
    /\ lowBefore' = lowBits
    /\ highBefore' = highBits
    /\ pass' = NoPass
    /\ UNCHANGED <<lowBits, highBits, op, row, col, moved, occupiedCells, transVars, callVars, chessVars, stageVars, concVars>>

\* do { moved = false; for (let row = 0; ...
PassStart ==
    /\ pc = "do"
    /\ moved' = FALSE
    /\ row' = 0
    /\ pc' = "row"
    /\ pass' = [pass EXCEPT !.n = IF @ < MaxCount THEN @ + 1 ELSE @,
                            !.lo = lowBits, !.hi = highBits]
    /\ UNCHANGED <<boardVars, col, occupiedCells, transVars, callVars, chessVars, stageVars, concVars>>

\* the test row < 7 and the head of the row loop's body: the snapshot
\* occupiedCells and the test emptyCells !== 0n
RowStart ==
    /\ pc = "row"
    /\ IF row < 7
       THEN /\ occupiedCells' = lowBits \cup highBits
            /\ IF (currentRowMask[row] \ occupiedCells') # {}
               THEN /\ col' = 0
                    /\ pc' = "col"
                    /\ UNCHANGED row
               ELSE /\ row' = row + 1
                    /\ pc' = "row"
                    /\ UNCHANGED col
       ELSE /\ pc' = "while"
            /\ UNCHANGED <<row, col, occupiedCells>>
    /\ UNCHANGED <<boardVars, moved, transVars, callVars, chessVars, passVars, stageVars, concVars>>

\* the test col < 8 and one iteration of the column loop
ColumnStep ==
    /\ pc = "col"
    /\ IF col < 8
       THEN LET st == ColumnBody([lo |-> lowBits, hi |-> highBits, moved |-> moved],
                                 occupiedCells, currentRowMask[row] \ occupiedCells,
                                 row, col)
            IN  /\ lowBits' = st.lo
                /\ highBits' = st.hi
                /\ moved' = st.moved
                /\ col' = col + 1
                /\ pass' = IF st.lo # lowBits \/ st.hi # highBits
                           THEN [pass EXCEPT !.moves[col] = IF @ < MaxCount THEN @ + 1 ELSE @]
                           ELSE pass
                /\ UNCHANGED <<pc, row>>
       ELSE /\ row' = row + 1
            /\ pc' = "row"
            /\ UNCHANGED <<lowBits, highBits, moved, col, pass>>
    /\ UNCHANGED <<op, settled, lowBefore, highBefore, occupiedCells, transVars, callVars, chessVars, stageVars, concVars>>

\* LoopTest that never repeats: do { ... } while (false)
LoopTest_ExitAlways ==
    /\ pc = "while"
    /\ pc' = "idle"
    /\ op' = "applyGravity"
    /\ row' = 0
    /\ col' = 0
    /\ moved' = FALSE
    /\ occupiedCells' = {}
    /\ pass' = NoPass
    /\ UNCHANGED <<lowBits, highBits, settled, lowBefore, highBefore, transVars, callVars, chessVars, stageVars, concVars>>

\* } while (moved); and the return
LoopTest ==
    /\ pc = "while"
    /\ IF moved
       THEN /\ pc' = "do"
            /\ UNCHANGED <<op, row, col, moved, occupiedCells, pass>>
       ELSE /\ pc' = "idle"
            /\ op' = "applyGravity"
            /\ row' = 0
            /\ col' = 0
            /\ moved' = FALSE
            /\ occupiedCells' = {}
            /\ pass' = NoPass
    /\ UNCHANGED <<lowBits, highBits, settled, lowBefore, highBefore, transVars, callVars, chessVars, stageVars, concVars>>

\* a step of a running applyGravity
GravityStep == PassStart \/ RowStart \/ ColumnStep \/ LoopTest

NextSteps ==
    \/ \E r \in Rows, c \in InputCols, color \in Colors : SetColorSteps(r, c, color)
    \/ CreateStackingTestPattern
    \/ GravityCall
    \/ PassStart
    \/ RowStart
    \/ ColumnStep
    \/ LoopTest

SpecSteps == Init /\ [][NextSteps]_vars

\* applyGravity is synchronous code: once called it keeps running
SpecStepsFair == SpecSteps /\ WF_vars(GravityStep)

\* --------------------------- getColor and setColor with any arguments
\* board.setColor(r, c, color) with unchecked integer arguments; the method
\* has no throw statement and BigInt(pos) accepts every integer
SetColorAny(r, c, color) ==
    /\ pc = "idle"
    /\ lowBits' = setColorLow(lowBits, r, c, color)
    /\ highBits' = setColorHigh(highBits, r, c, color)
    /\ Cardinality(lowBits' \cup highBits') <= MaxCells
    /\ call' = [kind |-> "set", row |-> r, col |-> c, color |-> color,
                lo |-> lowBits, hi |-> highBits,
                repeat |-> (call.kind = "set" /\ call.row = r /\ call.col = c
                            /\ call.color = color),
                threw |-> FALSE]
    /\ op' = "setColor"
    /\ settled' = FALSE
    /\ lowBefore' = {}
    /\ highBefore' = {}
    /\ UNCHANGED <<loopVars, transVars, chessVars, passVars, stageVars, concVars>>

\* board.getColor(r, c) with unchecked integer arguments; call.color is the
\* value returned
GetColorAny(r, c) ==
    /\ pc = "idle"
    /\ call' = [kind |-> "get", row |-> r, col |-> c,
                color |-> getColor(lowBits, highBits, r, c),
                lo |-> lowBits, hi |-> highBits,
                repeat |-> FALSE, threw |-> FALSE]
    /\ UNCHANGED <<boardVars, loopVars, transVars, chessVars, passVars, stageVars, concVars>>

NextCells ==
    \/ \E r \in ArgRows, c \in ArgCols, color \in ArgColors : SetColorAny(r, c, color)
    \/ \E r \in ArgRows, c \in ArgCols : GetColorAny(r, c)

SpecCells == Init /\ [][NextCells]_vars

\* ------------------------------------------------- ChessBoard, as called
\* board.makeMove(fromSquare, toSquare)
MakeMove(fromSquare, toSquare) ==
    /\ move.n < MaxMoves
    /\ LET b == makeMove([pieces |-> pieces, colors |-> colors], fromSquare, toSquare)
       IN  /\ pieces' = b.pieces
           /\ colors' = b.colors
    /\ move' = [n |-> move.n + 1, from |-> fromSquare, to |-> toSquare,
                pieces |-> pieces, colors |-> colors]
    /\ UNCHANGED <<boardVars, loopVars, transVars, callVars, passVars, stageVars, concVars>>

NextChess == \E fromSquare \in MoveSquares, toSquare \in MoveSquares :
                MakeMove(fromSquare, toSquare)

SpecChess == Init /\ [][NextChess]_vars

\* -------------------------------------------- transposeBitboard, as called
InitTranspose ==
    /\ InitBoard
    /\ mode = "serial"
    /\ tIn \in BitSets(MaxBits) \cup {ExamplePattern}
    /\ tOut = {}
    /\ tDone = FALSE
    /\ tBack = {}
    /\ tBackDone = FALSE

\* tOut = transposeBitboard(tIn)
Transpose ==
    /\ ~tDone
    /\ tOut' = transposeBitboard(tIn)
    /\ tDone' = TRUE
    /\ UNCHANGED <<tIn, tBack, tBackDone, boardVars, loopVars, callVars, chessVars, passVars, stageVars, concVars>>

\* tBack = transposeBitboard(tOut)
TransposeBack ==
    /\ tDone
    /\ ~tBackDone
    /\ tBack' = transposeBitboard(tOut)
    /\ tBackDone' = TRUE
    /\ UNCHANGED <<tIn, tOut, tDone, boardVars, loopVars, callVars, chessVars, passVars, stageVars, concVars>>

NextTranspose == Transpose \/ TransposeBack

SpecTranspose == InitTranspose /\ [][NextTranspose]_vars

\* ------------------------------- one step of transposeBitboard, on its own
\* step i of transposeBitboard applied to tIn
ApplyStage(i) ==
    /\ stage.n = 0
    /\ stage' = [n |-> 1, i |-> i,
                 once |-> TransposeStage(tIn, Stages[i][1], Stages[i][2]),
                 twice |-> {}]
    /\ UNCHANGED <<boardVars, loopVars, transVars, callVars, chessVars, passVars, concVars>>

\* the same step applied to the result
ApplyStageAgain ==
    /\ stage.n = 1
    /\ stage' = [stage EXCEPT !.n = 2,
                 !.twice = TransposeStage(stage.once, Stages[stage.i][1], Stages[stage.i][2])]
    /\ UNCHANGED <<boardVars, loopVars, transVars, callVars, chessVars, passVars, concVars>>

NextStage ==
    \/ \E i \in 1 .. 3 : ApplyStage(i)
    \/ ApplyStageAgain

SpecStage == InitTranspose /\ [][NextStage]_vars

\* ------------- two applyGravity invocations on one board, read by read
\* the local computation of an invocation takes no step of its own: a step
\* is one read or one write of this.lowBits or this.highBits, followed by
\* the local computation up to the next one

\* an invocation may take a step: always when the two are interleaved, only
\* while the other one is not running when they are serialized
MayStep(i) == mode = "interleaved" \/ threads[3 - i].pc \in {"new", "done"}

\* the first column from c on in which the column loop of row r finds a
\* piece to move, 8 when there is none
ScanCols(occ, r, c) ==
    LET found == {x \in c .. 7 : lowestPieceAbove(occ, currentRowMask[r] \ occ, r, x) # {}}
    IN  IF found = {} THEN 8 ELSE MinBit(found)

\* the locals of an invocation with the values no longer used dropped
Cleared(t) ==
    [t EXCEPT !.col = 0, !.occupiedCells = {}, !.piece = {},
              !.lowBitMove = {}, !.highBitMove = {}, !.tmp = {}]

\* the row loop from row r on: the next snapshot, or the loop test
RowFrom(t, r) ==
    IF r < 7 THEN [Cleared(t) EXCEPT !.pc = "snapLow", !.row = r]
    ELSE IF t.moved THEN [Cleared(t) EXCEPT !.pc = "snapLow", !.row = 0, !.moved = FALSE]
    ELSE [NotCalled EXCEPT !.pc = "done"]

\* the column loop of the current row from column c on: the next move, or
\* the next row
ColumnFrom(t, c) ==
    LET c2 == ScanCols(t.occupiedCells, t.row, c)
    IN  IF c2 < 8
        THEN [t EXCEPT !.pc = "readLow", !.col = c2, !.tmp = {},
                       !.lowBitMove = {}, !.highBitMove = {},
                       !.piece = lowestPieceAbove(t.occupiedCells,
                                    currentRowMask[t.row] \ t.occupiedCells, t.row, c2)]
        ELSE RowFrom(t, t.row + 1)

\* board.setColor(r, c, color) before either invocation is called
ConcSetColor(r, c, color) ==
    /\ \A i \in 1 .. 2 : threads[i].pc = "new"
    /\ lowBits' = setColorLow(lowBits, r, c, color)
    /\ highBits' = setColorHigh(highBits, r, c, color)
    /\ Cardinality(lowBits' \cup highBits') <= MaxPiecesConc
    /\ UNCHANGED <<op, settled, lowBefore, highBefore, loopVars, transVars, callVars,
                   chessVars, passVars, stageVars, concVars>>

\* invocation i is called; lowBefore and highBefore keep the board the first
\* of the two was called on
ConcCall(i) ==
    /\ threads[i].pc = "new"
    /\ MayStep(i)
    /\ threads' = [threads EXCEPT ![i] = RowFrom(NotCalled, 0)]
    /\ lowBefore' = IF threads[3 - i].pc = "new" THEN lowBits ELSE lowBefore
    /\ highBefore' = IF threads[3 - i].pc = "new" THEN highBits ELSE highBefore
    /\ UNCHANGED <<lowBits, highBits, op, settled, loopVars, transVars, callVars,
                   chessVars, passVars, stageVars, mode>>

\* a step of invocation i that writes no plane: its locals become t
LocalStep(i, at, t) ==
    /\ threads[i].pc = at
    /\ MayStep(i)
    /\ threads' = [threads EXCEPT ![i] = t]
    /\ UNCHANGED <<boardVars, loopVars, transVars, callVars, chessVars, passVars,
                   stageVars, mode>>

\* const occupiedCells = this.lowBits | this.highBits: the read of lowBits
SnapLow(i) ==
    LocalStep(i, "snapLow", [threads[i] EXCEPT !.pc = "snapHigh", !.tmp = lowBits])

\* ... and the read of highBits
SnapHigh(i) ==
    LocalStep(i, "snapHigh",
              ColumnFrom([threads[i] EXCEPT !.occupiedCells = threads[i].tmp \cup highBits], 0))

\* const lowBitMove = this.lowBits & lowestPieceAbove
ReadLow(i) ==
    LocalStep(i, "readLow",
              [threads[i] EXCEPT !.pc = "readHigh", !.lowBitMove = lowBits \cap threads[i].piece])

\* const highBitMove = this.highBits & lowestPieceAbove
ReadHigh(i) ==
    LocalStep(i, "readHigh",
              [threads[i] EXCEPT !.pc = "clearLowRead",
                                 !.highBitMove = highBits \cap threads[i].piece])

\* this.lowBits &= ~lowestPieceAbove: the read
ClearLowRead(i) ==
    LocalStep(i, "clearLowRead", [threads[i] EXCEPT !.pc = "clearLowWrite", !.tmp = lowBits])

\* ClearLowWrite that writes back the value read, without clearing the piece
ClearLowWrite_NoClear(i) ==
    /\ threads[i].pc = "clearLowWrite"
    /\ MayStep(i)
    /\ lowBits' = threads[i].tmp
    /\ threads' = [threads EXCEPT ![i] = [@ EXCEPT !.pc = "clearHighRead", !.tmp = {}]]
    /\ UNCHANGED <<highBits, op, settled, lowBefore, highBefore, loopVars, transVars,
                   callVars, chessVars, passVars, stageVars, mode>>

\* this.lowBits &= ~lowestPieceAbove: the write
ClearLowWrite(i) ==
    /\ threads[i].pc = "clearLowWrite"
    /\ MayStep(i)
    /\ lowBits' = threads[i].tmp \ threads[i].piece
    /\ threads' = [threads EXCEPT ![i] = [@ EXCEPT !.pc = "clearHighRead", !.tmp = {}]]
    /\ UNCHANGED <<highBits, op, settled, lowBefore, highBefore, loopVars, transVars,
                   callVars, chessVars, passVars, stageVars, mode>>

\* this.highBits &= ~lowestPieceAbove: the read
ClearHighRead(i) ==
    LocalStep(i, "clearHighRead", [threads[i] EXCEPT !.pc = "clearHighWrite", !.tmp = highBits])

\* this.highBits &= ~lowestPieceAbove: the write
ClearHighWrite(i) ==
    /\ threads[i].pc = "clearHighWrite"
    /\ MayStep(i)
    /\ highBits' = threads[i].tmp \ threads[i].piece
    /\ threads' = [threads EXCEPT ![i] = [@ EXCEPT !.pc = "setLowRead", !.tmp = {}]]
    /\ UNCHANGED <<lowBits, op, settled, lowBefore, highBefore, loopVars, transVars,
                   callVars, chessVars, passVars, stageVars, mode>>

\* this.lowBits |= lowBitMove >> 8n: the read
SetLowRead(i) ==
    LocalStep(i, "setLowRead", [threads[i] EXCEPT !.pc = "setLowWrite", !.tmp = lowBits])

\* this.lowBits |= lowBitMove >> 8n: the write
SetLowWrite(i) ==
    /\ threads[i].pc = "setLowWrite"
    /\ MayStep(i)
    /\ lowBits' = threads[i].tmp \cup ShiftRight(threads[i].lowBitMove, 8)
    /\ threads' = [threads EXCEPT ![i] = [@ EXCEPT !.pc = "setHighRead", !.tmp = {}]]
    /\ UNCHANGED <<highBits, op, settled, lowBefore, highBefore, loopVars, transVars,
                   callVars, chessVars, passVars, stageVars, mode>>

\* this.highBits |= highBitMove >> 8n: the read
SetHighRead(i) ==
    LocalStep(i, "setHighRead", [threads[i] EXCEPT !.pc = "setHighWrite", !.tmp = highBits])

\* this.highBits |= highBitMove >> 8n: the write; then moved = true and the
\* rest of the column loop
SetHighWrite(i) ==
    /\ threads[i].pc = "setHighWrite"
    /\ MayStep(i)
    /\ highBits' = threads[i].tmp \cup ShiftRight(threads[i].highBitMove, 8)
    /\ threads' = [threads EXCEPT ![i] =
                      ColumnFrom([@ EXCEPT !.moved = TRUE], threads[i].col + 1)]
    /\ UNCHANGED <<lowBits, op, settled, lowBefore, highBefore, loopVars, transVars,
                   callVars, chessVars, passVars, stageVars, mode>>

NextConcurrent ==
    \/ \E r \in ConcRows, c \in InputCols, color \in ConcColors : ConcSetColor(r, c, color)
    \/ \E i \in 1 .. 2 : ConcCall(i)
    \/ \E i \in 1 .. 2 : SnapLow(i)
    \/ \E i \in 1 .. 2 : SnapHigh(i)
    \/ \E i \in 1 .. 2 : ReadLow(i)
    \/ \E i \in 1 .. 2 : ReadHigh(i)
    \/ \E i \in 1 .. 2 : ClearLowRead(i)
    \/ \E i \in 1 .. 2 : ClearLowWrite(i)
    \/ \E i \in 1 .. 2 : ClearHighRead(i)
    \/ \E i \in 1 .. 2 : ClearHighWrite(i)
    \/ \E i \in 1 .. 2 : SetLowRead(i)
    \/ \E i \in 1 .. 2 : SetLowWrite(i)
    \/ \E i \in 1 .. 2 : SetHighRead(i)
    \/ \E i \in 1 .. 2 : SetHighWrite(i)

InitConcurrent ==
    /\ InitBoard
    /\ mode \in {"serial", "interleaved"}
    /\ tIn = {}
    /\ tOut = {}
    /\ tDone = FALSE
    /\ tBack = {}
    /\ tBackDone = FALSE

SpecConcurrent == InitConcurrent /\ [][NextConcurrent]_vars

\* ------------------------------------------- properties of the board
\* applyGravity has returned and nothing was done to the board since
Returned == pc = "idle" /\ op = "applyGravity"

\* column c read bottom-up, row 0 first
ColumnValues(lo, hi, c) == [i \in 1 .. 8 |-> getColor(lo, hi, i - 1, c)]

\* the occupied cells of a sequence of cell values, in order
NonEmpty(seq) == SelectSeq(seq, LAMBDA v : v # EMPTY)

\* per-column compaction: the occupied cells packed from row 0, empties above
Compacted(seq) ==
    LET kept == NonEmpty(seq)
    IN  [i \in 1 .. 8 |-> IF i <= Len(kept) THEN kept[i] ELSE EMPTY]

\* the cells of the board that hold colour v
CellsOf(lo, hi, v) ==
    {pos \in lo \cup hi : getColor(lo, hi, pos \div 8, pos % 8) = v}

\* the planes cut down to column c
OnlyColumn(plane, c) == plane \cap columnMasks[c]

\* some piece was moved by the last applyGravity
BoardChanged == lowBits # lowBefore \/ highBits # highBefore

\* C1: after applyGravity returns, no column has an empty cell below an
\* occupied one (the occupied cells are a prefix starting at row 0).
C1_NoGap ==
    Returned =>
        \A c \in Cols : \A r \in Rows : \A r2 \in Rows :
            r < r2 => ~(getColor(lowBits, highBits, r, c) = EMPTY
                        /\ getColor(lowBits, highBits, r2, c) # EMPTY)

\* C2: the board applyGravity returns is the per-column compaction of the
\* board it was called on.
C2_EqualsCompaction ==
    Returned =>
        \A c \in Cols :
            ColumnValues(lowBits, highBits, c)
                = Compacted(ColumnValues(lowBefore, highBefore, c))

\* C3: applyGravity keeps the multiset of nonzero cell values: for every
\* colour, as many cells hold it after the call as before.
C3_Conservation ==
    Returned =>
        \A v \in Colors \ {EMPTY} :
            Cardinality(CellsOf(lowBits, highBits, v))
                = Cardinality(CellsOf(lowBefore, highBefore, v))

\* a call that moved a piece on a board of at least two colours
C3_Witness ==
    /\ Returned
    /\ BoardChanged
    /\ CellsOf(lowBefore, highBefore, RED) # {}
    /\ CellsOf(lowBefore, highBefore, GREEN) # {}

\* C4: in every column the bottom-to-top sequence of nonzero values is the
\* same after applyGravity as before it.
C4_OrderPreserved ==
    Returned =>
        \A c \in Cols :
            NonEmpty(ColumnValues(lowBits, highBits, c))
                = NonEmpty(ColumnValues(lowBefore, highBefore, c))

\* a call that moved a piece in a column of three pieces of distinct colours
C4_Witness ==
    /\ Returned
    /\ \E c \in Cols :
        /\ ColumnValues(lowBits, highBits, c) # ColumnValues(lowBefore, highBefore, c)
        /\ Len(NonEmpty(ColumnValues(lowBefore, highBefore, c))) >= 3
        /\ \A v \in Colors \ {EMPTY} :
            \E i \in 1 .. 8 : ColumnValues(lowBefore, highBefore, c)[i] = v

\* C5: a second applyGravity right after the first changes neither plane.
C5_Idempotent ==
    (Returned /\ settled) => (lowBits = lowBefore /\ highBits = highBefore)

\* a second call in a row on a board with a floating piece
C5_Witness ==
    /\ Returned
    /\ settled
    /\ \E c \in Cols : \E r \in 1 .. 7 :
        /\ getColor(lowBits, highBits, r, c) # EMPTY
        /\ getColor(lowBits, highBits, r - 1, c) = EMPTY

\* C6: applyGravity terminates: a call that is running eventually returns.
C6_Terminates == (pc # "idle") ~> (pc = "idle")

\* a call has returned that needed several passes: the lowest piece of a
\* column was at row 2 or above
C6_Witness ==
    /\ Returned
    /\ \E c \in Cols :
        /\ OnlyColumn(lowBefore \cup highBefore, c) # {}
        /\ MinBit(OnlyColumn(lowBefore \cup highBefore, c)) >= 16
        /\ getColor(lowBits, highBits, 0, c) # EMPTY

\* the loop of applyGravity computes what the call as a whole computes
StepsAgree ==
    Returned =>
        LET res == applyGravityResult(lowBefore, highBefore)
        IN  lowBits = res.lo /\ highBits = res.hi

\* applyGravity on the empty board
EmptyBoardResult == applyGravityResult({}, {})

\* applyGravity on the board that holds only column c of the board the last
\* call was made on
GravityAlone(c) ==
    IF OnlyColumn(lowBefore \cup highBefore, c) = {}
    THEN EmptyBoardResult
    ELSE applyGravityResult(OnlyColumn(lowBefore, c), OnlyColumn(highBefore, c))

\* C7: the outcome in a column is the outcome of applyGravity on the board
\* that holds this column alone, and the call on a board whose pieces lie in
\* one column leaves every other column empty.
C7_ColumnIndependence ==
    Returned =>
        /\ \A c \in Cols :
            LET alone == GravityAlone(c)
            IN  /\ OnlyColumn(lowBits, c) = alone.lo
                /\ OnlyColumn(highBits, c) = alone.hi
        /\ \A c \in Cols :
            (lowBefore \cup highBefore) \subseteq columnMasks[c]
                => (lowBits \cup highBits) \subseteq columnMasks[c]

\* a call that moved a piece on a board with pieces in two columns
C7_Witness ==
    /\ Returned
    /\ BoardChanged
    /\ OnlyColumn(lowBefore \cup highBefore, 1) # {}
    /\ OnlyColumn(lowBefore \cup highBefore, 3) # {}

\* the board of the stacking scenario: (7,3)=1, (5,3)=2, (3,3)=3, (0,3)=1
StackingLow == PatternLow({}, 4)
StackingHigh == PatternHigh({}, 4)

\* C8: applyGravity on the stacking scenario leaves column 3 reading,
\* bottom-up, 1,1,2,3,0,0,0,0.
C8_StackingScenario ==
    (Returned /\ lowBefore = StackingLow /\ highBefore = StackingHigh)
        => ColumnValues(lowBits, highBits, 3) = <<1, 1, 2, 3, 0, 0, 0, 0>>

\* ------------------------------- properties of the steps of applyGravity
\* the column loop is about to run its body for (row, col)
AtCell == pc = "col" /\ col < 8

\* the cell (row, col) is an eligible landing target: empty, and on the
\* floor row or with nothing occupied below it in its column
Eligible ==
    /\ (row * 8 + col) \notin occupiedCells
    /\ (row = 0 \/ \A r \in 0 .. (row - 1) : (r * 8 + col) \notin occupiedCells)

\* the occupied cells of column col strictly above row
OccupiedAbove == {b \in occupiedCells : b % 8 = col /\ b \div 8 > row}

\* the step moves the piece on bit b down one row and changes nothing else
MovesDown(b) ==
    /\ lowBits' = (lowBits \ {b}) \cup {x - 8 : x \in lowBits \cap {b}}
    /\ highBits' = (highBits \ {b}) \cup {x - 8 : x \in highBits \cap {b}}

\* C19: at an eligible empty cell (row, col) whose column has an occupied
\* cell above row, the occupied cell with the smallest row index above row,
\* at whatever distance, is moved down by exactly one row.
C19_LowestSelected ==
    [][(AtCell /\ Eligible /\ OccupiedAbove # {}) => MovesDown(MinBit(OccupiedAbove))]_vars

\* C20: while applyGravity runs, a cell above the floor row receives a
\* piece only when every cell below it in its column is empty.
C20_LandingTarget ==
    [][pc # "idle" =>
        \A b \in (lowBits' \cup highBits') \ (lowBits \cup highBits) :
            \/ b \div 8 = 0
            \/ \A r \in 0 .. (b \div 8 - 1) : (r * 8 + (b % 8)) \notin (lowBits \cup highBits)]_vars

\* the last iteration skipped the empty cell (row, col - 1) above the floor
\* row: a cell below it is occupied, and so is the cell above it, which
\* stayed where it was
C20_Witness ==
    /\ pc = "col"
    /\ col > 0
    /\ row > 0
    /\ (row * 8 + col - 1) \notin occupiedCells
    /\ ((row + 1) * 8 + col - 1) \in occupiedCells
    /\ \E r \in 0 .. (row - 1) : (r * 8 + col - 1) \in occupiedCells
    /\ (row * 8 + col - 1) \notin (lowBits \cup highBits)

\* the rows of the occupied cells of column c, bottom-up
RowsOf(occ, c) == SelectSeq([i \in 1 .. 8 |-> i - 1], LAMBDA r : (r * 8 + c) \in occ)

\* the sum of the row indices of the cells of occ
RECURSIVE RowSum(_)
RowSum(occ) ==
    IF occ = {} THEN 0
    ELSE LET b == CHOOSE x \in occ : TRUE
         IN  (b \div 8) + RowSum(occ \ {b})

\* the columns in which a plane differs from what it was when the pass began
ChangedCols == {b % 8 : b \in Xor(lowBits, pass.lo) \cup Xor(highBits, pass.hi)}

\* C21: within one pass no piece is moved down by more than one row: the
\* i-th piece of every column, counted bottom-up, is on the row it had when
\* the pass began or on the row below, with its value (stated for the
\* columns that changed; the others hold what they held).
C21_OneRowPerPass ==
    pc \in {"row", "col", "while"} =>
        \A c \in ChangedCols :
            LET now == RowsOf(lowBits \cup highBits, c)
                then == RowsOf(pass.lo \cup pass.hi, c)
            IN  /\ Len(now) = Len(then)
                /\ \A i \in 1 .. Len(now) :
                    /\ now[i] \in {then[i] - 1, then[i]}
                    /\ getColor(lowBits, highBits, now[i], c)
                        = getColor(pass.lo, pass.hi, then[i], c)

\* a pass ended that moved the lowest piece of a column one row down and
\* left it above row 0: it needs another pass
C21_Witness ==
    /\ pc = "while"
    /\ \E c \in Cols :
        LET now == RowsOf(lowBits \cup highBits, c)
            then == RowsOf(pass.lo \cup pass.hi, c)
        IN  /\ Len(now) > 0
            /\ now[1] = then[1] - 1
            /\ now[1] > 0

\* no cell (r, c) with r in 0..6 is empty with every cell below it empty
\* and the cell above it, (r + 1, c), occupied
NoSource(lo, hi) ==
    \A c \in Cols : \A r \in 0 .. 6 :
        ~ /\ \A r2 \in 0 .. r : (r2 * 8 + c) \notin (lo \cup hi)
          /\ ((r + 1) * 8 + c) \in (lo \cup hi)

\* C22: at the loop test another pass is run exactly when the pass that
\* ended moved a piece, and applyGravity returns only after a pass without
\* a move, on a board where no eligible empty cell has a piece right above.
C22_FixedPointExit ==
    [][pc = "while" =>
        /\ (pc' = "do") <=> moved
        /\ moved <=> (lowBits # pass.lo \/ highBits # pass.hi)
        /\ pc' = "idle" => (~moved /\ NoSource(lowBits', highBits'))]_vars

\* a call returned after more than one moving pass: the lowest piece of a
\* column came down from row 2 or higher
C22_Witness ==
    /\ Returned
    /\ \E c \in Cols :
        LET before == RowsOf(lowBefore \cup highBefore, c)
        IN  /\ Len(before) > 0
            /\ before[1] >= 2
            /\ (0 * 8 + c) \in (lowBits \cup highBits)

\* C23: every move inside applyGravity takes one piece from a cell
\* (r + 1, c) to the empty cell (r, c) with r in 0..6, and lowers the sum of
\* the row indices of the occupied cells by exactly 1; no step raises it.
C23_PotentialDecrease ==
    [][pc # "idle" =>
        \/ UNCHANGED <<lowBits, highBits>>
        \/ \E r \in 0 .. 6 : \E c \in Cols :
            /\ ((r + 1) * 8 + c) \in (lowBits \cup highBits)
            /\ (r * 8 + c) \notin (lowBits \cup highBits)
            /\ MovesDown((r + 1) * 8 + c)
            /\ RowSum(lowBits' \cup highBits') = RowSum(lowBits \cup highBits) - 1]_vars

\* the last iteration moved a piece: the board differs from the row's
\* snapshot and its row sum is one less
C23_Witness ==
    /\ pc = "col"
    /\ (lowBits \cup highBits) # occupiedCells
    /\ RowSum(lowBits \cup highBits) = RowSum(occupiedCells) - 1

\* C26: one applyGravity call makes at most 7 moves in each column (so at
\* most 56 on the board) and begins at most 8 passes, the last, moveless
\* one included.
C26_BoundedWork ==
    /\ pass.n <= 8
    /\ \A c \in Cols : pass.moves[c] <= 7

\* the eighth pass of a call ended without a move after seven moves in
\* column 3
C26_Witness ==
    /\ pc = "while"
    /\ ~moved
    /\ pass.n = 8
    /\ pass.moves[3] = 7

\* C28: every move inside applyGravity writes to a cell that is empty at
\* the moment of the write, and after every move each column holds the
\* multiset of nonzero values it held at the call (the steps that move
\* nothing leave the planes as they are); both planes stay within bits
\* 0..63 at every step.
C28_NoOverwrite ==
    [][pc # "idle" =>
        /\ \/ UNCHANGED <<lowBits, highBits>>
           \/ /\ \E b \in lowBits \cup highBits :
                    /\ (b - 8) \notin (lowBits \cup highBits)
                    /\ MovesDown(b)
              /\ \A c \in Cols : \A v \in Colors \ {EMPTY} :
                    Cardinality(CellsOf(OnlyColumn(lowBits', c), OnlyColumn(highBits', c), v))
                        = Cardinality(CellsOf(OnlyColumn(lowBefore, c),
                                              OnlyColumn(highBefore, c), v))
        /\ lowBits' \subseteq 0 .. 63
        /\ highBits' \subseteq 0 .. 63]_vars

\* a piece of two bits was moved and the row's snapshot, taken before the
\* move, is still in use for the columns that follow
C28_Witness ==
    /\ pc = "col"
    /\ col < 8
    /\ (lowBits \cup highBits) # occupiedCells
    /\ \E b \in occupiedCells \ (lowBits \cup highBits) :
        (b - 8) \in (lowBits \cap highBits)

SetInRange ==
    /\ call.kind = "set"
    /\ call.row \in Rows
    /\ call.col \in Cols
    /\ call.color \in Colors

\* the last call had an argument out of range
OutOfRange ==
    /\ call.kind \in {"set", "get"}
    /\ \/ call.row \notin Rows
       \/ call.col \notin Cols
       \/ (call.kind = "set" /\ call.color \notin Colors)

\* the bit position the last call computed
CallPos == call.row * 8 + call.col

\* C13: after setColor(row, col, value) with arguments in range, getColor(row,
\* col) is value: the low plane bit holds value & 1, the high plane bit
\* (value >> 1) & 1.
C13_RoundTrip ==
    SetInRange =>
        /\ getColor(lowBits, highBits, call.row, call.col) = call.color
        /\ (CallPos \in lowBits) <=> (call.color \in {RED, GREEN})
        /\ (CallPos \in highBits) <=> (call.color \in {BLUE, GREEN})

\* a cell that held one colour was set to another colour
C13_Witness ==
    /\ SetInRange
    /\ call.color # EMPTY
    /\ getColor(call.lo, call.hi, call.row, call.col) \notin {EMPTY, call.color}

\* C14: setColor with arguments in range leaves the value of every other
\* cell unchanged.
C14_Frame ==
    SetInRange =>
        \A r \in Rows : \A c \in Cols :
            (r # call.row \/ c # call.col) =>
                getColor(lowBits, highBits, r, c) = getColor(call.lo, call.hi, r, c)

\* a cell was changed while another cell of the board was occupied
C14_Witness ==
    /\ SetInRange
    /\ (lowBits # call.lo \/ highBits # call.hi)
    /\ \E r \in Rows : \E c \in Cols :
        /\ (r # call.row \/ c # call.col)
        /\ getColor(call.lo, call.hi, r, c) # EMPTY

\* C15: a call with an argument out of range signals an error and leaves
\* both planes unchanged.
C15_FailFast ==
    OutOfRange => (call.threw /\ lowBits = call.lo /\ highBits = call.hi)

\* C15, as the code behaves: no call signals an error; setColor writes the
\* two low bits of color to bit row*8+col of the planes, whatever cell or
\* bit outside the board that is (no bit when it is negative), and changes
\* no other bit; getColor reads that bit of the planes.
C15_Unchecked ==
    /\ ~call.threw
    /\ call.kind = "set" =>
        /\ \A r \in Rows : \A c \in Cols :
            getColor(lowBits, highBits, r, c)
                = IF r * 8 + c = CallPos THEN call.color % 4
                  ELSE getColor(call.lo, call.hi, r, c)
        /\ {b \in lowBits : b > 63 /\ b # CallPos} = {b \in call.lo : b > 63 /\ b # CallPos}
        /\ {b \in highBits : b > 63 /\ b # CallPos} = {b \in call.hi : b > 63 /\ b # CallPos}
        /\ CallPos > 63 =>
            /\ (CallPos \in lowBits) <=> (call.color % 2 = 1)
            /\ (CallPos \in highBits) <=> ((call.color \div 2) % 2 = 1)
    /\ call.kind = "get" =>
        /\ lowBits = call.lo
        /\ highBits = call.hi
        /\ CallPos \in 0 .. 63 =>
            call.color = getColor(lowBits, highBits, CallPos \div 8, CallPos % 8)
        /\ CallPos < 0 => call.color = EMPTY

\* a setColor call with its column out of range changed a cell of the board
C15_Witness ==
    /\ call.kind = "set"
    /\ call.col \notin Cols
    /\ CallPos \in 0 .. 63
    /\ getColor(lowBits, highBits, CallPos \div 8, CallPos % 8)
        # getColor(call.lo, call.hi, CallPos \div 8, CallPos % 8)

\* C16: a second setColor call with the same arguments, in range, changes
\* neither plane.
C16_SetIdempotent ==
    (SetInRange /\ call.repeat) => (lowBits = call.lo /\ highBits = call.hi)

\* a colour was set twice in a row on the same cell
C16_Witness ==
    /\ SetInRange
    /\ call.repeat
    /\ call.color = GREEN

\* ------------------------------------------------ properties of ChessBoard
\* the back rank from the a-file to the h-file
BackRank == <<ROOK, KNIGHT, BISHOP, QUEEN, KING, BISHOP, KNIGHT, ROOK>>

\* the piece of the standard starting position on a square, <<>> for none
StandardPiece(square) ==
    IF square \in 0 .. 7 THEN <<BackRank[square + 1], WHITE>>
    ELSE IF square \in 8 .. 15 THEN <<PAWN, WHITE>>
    ELSE IF square \in 48 .. 55 THEN <<PAWN, BLACK>>
    ELSE IF square \in 56 .. 63 THEN <<BackRank[square - 55], BLACK>>
    ELSE <<>>

\* C17: a newly constructed ChessBoard holds the standard starting position:
\* getPieceAtSquare reports the white back rank on squares 0..7, white pawns
\* on 8..15, black pawns on 48..55, the black back rank on 56..63 and null
\* on 16..47.
C17_StandardPosition ==
    move.n = 0 =>
        \A square \in 0 .. 63 :
            getPieceAtSquare(pieces, colors, square) = StandardPiece(square)

\* C18: makeMove(fromSquare, toSquare) from a square holding a piece to
\* another, empty square leaves fromSquare empty, puts the piece with its
\* type and colour on toSquare, and leaves what every other square reports
\* unchanged.
C18_MoveRelocates ==
    LET piece == getPieceAtSquare(move.pieces, move.colors, move.from)
    IN  (/\ move.n > 0
         /\ piece # <<>>
         /\ move.from # move.to
         /\ getPieceAtSquare(move.pieces, move.colors, move.to) = <<>>)
        =>
        /\ getPieceAtSquare(pieces, colors, move.from) = <<>>
        /\ getPieceAtSquare(pieces, colors, move.to) = piece
        /\ \A square \in (0 .. 63) \ {move.from, move.to} :
            getPieceAtSquare(pieces, colors, square)
                = getPieceAtSquare(move.pieces, move.colors, square)

\* ------------------------------- properties of transposeBitboard
\* C9: bit r*8+c of transposeBitboard(m) equals bit c*8+r of m, for all r, c.
C9_TransposeCorrect ==
    tDone =>
        \A r \in 0 .. 7 : \A c \in 0 .. 7 :
            ((r * 8 + c) \in tOut) <=> ((c * 8 + r) \in tIn)

\* C10: when m has the single bit r*8+c set, transposeBitboard(m) has the
\* single bit c*8+r set.
C10_SingleBit ==
    (tDone /\ Cardinality(tIn) = 1) =>
        \A r \in 0 .. 7 : \A c \in 0 .. 7 :
            (tIn = Bit(r * 8 + c)) => (tOut = Bit(c * 8 + r))

\* C11: transposing twice gives the argument back.
C11_Involution == tBackDone => tBack = tIn

\* the matrix of m is symmetric: bit r*8+c equals bit c*8+r
Symmetric(m) ==
    \A r \in 0 .. 7 : \A c \in 0 .. 7 : ((r * 8 + c) \in m) <=> ((c * 8 + r) \in m)

\* C12: transposeBitboard(m) = m exactly when m is symmetric, and the example
\* pattern 0x8142241818244281 is such a fixed point.
C12_SymmetricFixedPoints ==
    tDone =>
        /\ (tOut = tIn) <=> Symmetric(tIn)
        /\ (tIn = ExamplePattern) => (tOut = ExamplePattern)

\* C24: each of the three steps of transposeBitboard, with its shift and
\* mask, is its own inverse: applied twice it returns its argument.
C24_StageSelfInverse == stage.n = 2 => stage.twice = tIn

\* the step with shift 8 changed a two-bit argument and was applied again
C24_Witness ==
    /\ stage.n = 2
    /\ stage.i = 1
    /\ Cardinality(tIn) = 2
    /\ stage.once # tIn

\* ------------------ properties of two applyGravity invocations on a board
\* both invocations have returned
BothReturned == \A i \in 1 .. 2 : threads[i].pc = "done"

\* the board holds the multiset of nonzero values it held at the first call
SameValues ==
    \A v \in Colors \ {EMPTY} :
        Cardinality(CellsOf(lowBits, highBits, v))
            = Cardinality(CellsOf(lowBefore, highBefore, v))

\* C25: two applyGravity invocations on one board that run one after the
\* other return a board with the multiset of nonzero values of the board
\* they were called on; interleaved read by read and write by write they
\* can return a board with another multiset (C25_Witness).
C25_SerializedSafe == (mode = "serial" /\ BothReturned) => SameValues

\* two interleaved invocations have returned a board whose multiset of
\* nonzero values is not the one of the board they were called on
C25_Witness == mode = "interleaved" /\ BothReturned /\ ~SameValues

TypeOK ==
    /\ lowBits \subseteq 0 .. 63
    /\ highBits \subseteq 0 .. 63
    /\ tOut \subseteq 0 .. 63

====
